---- MODULE Spec2Model ----
(***************************************************************************)
(* Model of the two dashboard scripts src/app.py and                       *)
(* src/Standardinterface.py.  Each script is run top to bottom by the UI   *)
(* framework on every widget change; one run is one action.  The only      *)
(* state that survives a run is the st.cache_resource entry of load_mesh.  *)
(*                                                                         *)
(* Numbers are scaled integers:                                            *)
(*   lengths and z coordinates   tenths         (0.5 -> 5)                 *)
(*   time t                      centiseconds   (0.5 s -> 50)              *)
(*   sin(t), pulse               thousandths    (0.479 -> 479)             *)
(*   mixing time, power          hundredths     (10.05 -> 1005)            *)
(*   avg velocity                ten-thousandths                           *)
(*   v_max                       tenths         (5.0 -> 50)                *)
(* Mesh objects hold references to arrays; the arrays live in a store, so  *)
(* that a shallow copy shares array contents with its source as VTK's      *)
(* ShallowCopy does.                                                       *)
(***************************************************************************)
EXTENDS Integers, Sequences, FiniteSets, TLC

VARIABLES resource, cache, store, loads, inputs, shown

vars == <<resource, cache, store, loads, inputs, shown>>

Variants == {"app", "std"}

\* ---------------------------------------------------------------- bounds
\* largest point / cell count of a mesh read from master.case
MaxPoints == 2
MaxCells == 2
\* point / cell count standing for the fallback cylinder's (the two differ)
CylPoints == 3
CylCells == 2
\* number of distinct outcomes of one np.random.rand draw
MaxSeed == 2

\* ------------------------------------------------------ program constants
\* second axis of np.random.rand(n_points, 3)
Dim == 3
\* np.linspace(0, 100, 100): number of samples, and the last sample
CurveSamples == 100
CurveStop == 100
\* pv.Cylinder(radius=0.5, height=1.2), in tenths
CylRadius == 5
CylHeight == 12
\* volume of that cylinder, pi * 0.5^2 * 1.2 = 0.94, in hundredths
CylVolume == 94
\* slice origin (0, 0, 0.5), in tenths
SliceOriginZ == 5

\* the literal "98.5%" of the homogeneity tile, in tenths
Homogeneity == 985

\* slider values the model draws from (defaults: ratio 49, t 0.5, v_max 5.0)
Ratios == {49, 50}
AllRatios == 0..100
Times == {0, 50, 471}
VMaxes == {50, 200}
PairRatios == {49, 50}
PairTimes == {50}

NoMesh == [kind |-> "none"]
NoArray == <<>>
Raised == [kind |-> "raised"]

Abs(x) == IF x < 0 THEN -x ELSE x

\* ------------------------------------------------------------ numpy
\* np.sin at the modelled slider positions, in thousandths
np_sin(t) ==
  CASE t = 0   -> 0
    [] t = 50  -> 479
    [] t = 471 -> -1000
    [] OTHER   -> 0

\* np.random.rand(n, d): an n x d array; seed stands for the generator's outcome
np_random_rand(n, d, seed) ==
  [i \in 1..n |-> [j \in 1..d |-> (seed + i + j) % MaxSeed]]

\* np.linspace(0, stop, num)[i - 1] = (i - 1) * stop / (num - 1): its numerator
\* over the denominator num - 1
np_linspace(stop, i) == (i - 1) * stop

\* array * scalar: a new array, the operand is left as it is
np_multiply(a, k) ==
  [i \in 1..Len(a) |-> [j \in 1..Len(a[i]) |-> a[i][j] * k]]

\* contents of an array stored in the mesh file
FileArray(n, d) ==
  [i \in 1..n |-> [j \in 1..d |-> i + j]]

\* ------------------------------------------------------------ pyvista
ArrayIds == {"file.pressure", "file.velocity", "cyl.Normals", "cyl.TCoords",
             "run.velocity", "run.display_vel"}

EmptyStore == [id \in ArrayIds |-> NoArray]

\* names of the arrays attached to a mesh: point data, then cell data
array_names(mesh) ==
  [i \in 1..Len(mesh.point_data) |-> mesh.point_data[i].name]
    \o [i \in 1..Len(mesh.cell_data) |-> mesh.cell_data[i].name]

HasArray(mesh, name) ==
  \E i \in 1..Len(array_names(mesh)) : array_names(mesh)[i] = name

\* mesh[name]: the reference of the array of that name
getitem(mesh, name) ==
  LET all == mesh.point_data \o mesh.cell_data
      i == CHOOSE k \in 1..Len(all) : all[k].name = name
  IN all[i].ref

\* the mesh with the entry of that name removed from a list of attachments
Without(entries, name) ==
  SelectSeq(entries, LAMBDA e : e.name # name)

\* mesh[name] = data: attached to the points when the first axis has n_points
\* entries, else to the cells when it has n_cells entries, else it raises
setitem(mesh, name, ref, data) ==
  IF Len(data) = mesh.n_points
    THEN [mesh EXCEPT !.point_data = Append(Without(@, name), [name |-> name, ref |-> ref])]
    ELSE IF Len(data) = mesh.n_cells
      THEN [mesh EXCEPT !.cell_data = Append(Without(@, name), [name |-> name, ref |-> ref])]
      ELSE Raised

\* pv.Cylinder(radius=0.5, height=1.2, direction=(0,0,1)): centred at the
\* origin, so it spans z in [-0.6, 0.6]
Cylinder ==
  [kind |-> "cylinder", n_points |-> CylPoints, n_cells |-> CylCells,
   radius |-> CylRadius, height |-> CylHeight, volume |-> CylVolume,
   zlo |-> -(CylHeight \div 2), zhi |-> CylHeight \div 2,
   point_data |-> <<[name |-> "Normals", ref |-> "cyl.Normals"],
                    [name |-> "TCoords", ref |-> "cyl.TCoords"]>>,
   cell_data |-> <<>>]

CylinderArrays ==
  [EmptyStore EXCEPT !["cyl.Normals"] = FileArray(CylPoints, 3),
                     !["cyl.TCoords"] = FileArray(CylPoints, 2)]

\* block 0 of master.case: np points, nc cells, lying below, across or above the
\* plane z = 0.5, with a velocity array on its points, on its cells, or none
FileMesh(np, nc, zpos, vel) ==
  [kind |-> "file", n_points |-> np, n_cells |-> nc,
   radius |-> 0, height |-> 0, volume |-> 100 * nc,
   zlo |-> CASE zpos = "below" -> -10 [] zpos = "across" -> 0 [] OTHER -> 10,
   zhi |-> CASE zpos = "below" -> 0 [] zpos = "across" -> 10 [] OTHER -> 20,
   point_data |-> <<[name |-> "pressure", ref |-> "file.pressure"]>>
                    \o (IF vel = "point"
                          THEN <<[name |-> "velocity", ref |-> "file.velocity"]>>
                          ELSE <<>>),
   cell_data |-> IF vel = "cell"
                   THEN <<[name |-> "velocity", ref |-> "file.velocity"]>>
                   ELSE <<>>]

FileArrays(np, nc, vel) ==
  [EmptyStore EXCEPT !["file.pressure"] = FileArray(np, 1),
                     !["file.velocity"] =
                        CASE vel = "point" -> FileArray(np, Dim)
                          [] vel = "cell"  -> FileArray(nc, Dim)
                          [] OTHER         -> NoArray]

\* what pv.read("master.case") followed by multiblock[0] can come to
ReadFailures == {"missing", "parse_error", "unsupported", "no_block0"}

Resources ==
  {[outcome |-> o, mesh |-> NoMesh, arrays |-> EmptyStore] : o \in ReadFailures}
    \cup
  {[outcome |-> "ok", mesh |-> FileMesh(np, nc, z, v), arrays |-> FileArrays(np, nc, v)] :
      np \in 1..MaxPoints, nc \in 1..MaxCells,
      z \in {"below", "across", "above"}, v \in {"none", "point", "cell"}}

\* mutant: display_grid = grid, no copy is made
mesh_copy_alias(h, src) ==
  [h |-> h, ref |-> src]

\* mesh.copy(deep=False): a new mesh object whose attachment lists are its own
\* and whose array references are those of the source.  h is the heap of the
\* call: objs maps object names to meshes, arrs is the array store.
mesh_copy(h, src) ==
  [h |-> [h EXCEPT !.objs["display_grid"] = h.objs[src]], ref |-> "display_grid"]

\* obj[name] = data on the object ref of heap h, the data stored under id
heap_setitem(h, ref, name, id, data) ==
  LET m == setitem(h.objs[ref], name, id, data)
  IN IF h.err # "" THEN h
     ELSE IF m.kind = "raised" THEN [h EXCEPT !.err = "ValueError"]
     ELSE [h EXCEPT !.objs[ref] = m, !.arrs[id] = data]

\* mesh.slice(normal='z', origin=(0, 0, z)): the cross-section, which carries the
\* mesh's arrays; it has no points when the plane misses the mesh
mesh_slice(mesh, z) ==
  [n_points |-> IF mesh.zlo <= z /\ z <= mesh.zhi THEN mesh.n_cells ELSE 0,
   normal |-> "z", origin |-> <<0, 0, z>>,
   array_names |-> array_names(mesh)]

\* plotter.add_mesh(mesh, ...): raises ValueError ("Empty meshes cannot be
\* plotted") for a mesh without points, else adds one actor to the plotter
add_mesh(plotter, n_points, actor) ==
  IF plotter.err # "" THEN plotter
  ELSE IF n_points < 1 THEN [plotter EXCEPT !.err = "ValueError"]
  ELSE [plotter EXCEPT !.actors = Append(@, actor)]

Plotter(w, h, bg) ==
  [window_size |-> <<w, h>>, background |-> bg, actors |-> <<>>, camera |-> "",
   err |-> ""]

\* f"{value:.Nf}": value in units of 1/(q * 10^N), rounded to units of 1/10^N
FormatFixed(value, q) == (2 * value + q) \div (2 * q)

\* ------------------------------------------------------------ src/app.py
\* mutant: except FileNotFoundError in place of the bare except
app_load_mesh_narrow(res) ==
  IF res.outcome = "ok"
    THEN [mesh |-> res.mesh, arrays |-> res.arrays]
    ELSE IF res.outcome = "missing"
      THEN [mesh |-> Cylinder, arrays |-> CylinderArrays]
      ELSE [mesh |-> Raised, arrays |-> EmptyStore]

\* load_mesh body (without the cache decorator)
app_load_mesh(res) ==
  IF res.outcome = "ok"
    THEN [mesh |-> res.mesh, arrays |-> res.arrays]
    ELSE [mesh |-> Cylinder, arrays |-> CylinderArrays]

\* mutant: load_mesh without the cache decorator
app_cache_resource_uncached(entry, arrays, res) ==
  [mesh |-> app_load_mesh(res).mesh, arrays |-> app_load_mesh(res).arrays,
   ran |-> TRUE]

\* @st.cache_resource on load_mesh: the body runs on a miss only, and its
\* result is stored; entry is the stored mesh, arrays the process's store
app_cache_resource(entry, arrays, res) ==
  IF entry.kind # "none"
    THEN [mesh |-> entry, arrays |-> arrays, ran |-> FALSE]
    ELSE [mesh |-> app_load_mesh(res).mesh, arrays |-> app_load_mesh(res).arrays,
          ran |-> TRUE]

\* mutant: np.random.rand(display_grid.n_cells, 3)
app_attach_velocity_cells(c, seed) ==
  IF ~HasArray(c.h.objs[c.ref], "velocity")
    THEN heap_setitem(c.h, c.ref, "velocity", "run.velocity",
                      np_random_rand(c.h.objs[c.ref].n_cells, Dim, seed))
    ELSE c.h

\* get_velocity_model, first part: the guarded random velocity on the copy c
app_attach_velocity(c, seed) ==
  IF ~HasArray(c.h.objs[c.ref], "velocity")
    THEN heap_setitem(c.h, c.ref, "velocity", "run.velocity",
                      np_random_rand(c.h.objs[c.ref].n_points, Dim, seed))
    ELSE c.h

\* mutant: the velocity array is scaled in place (v *= pulse) and attached again
app_attach_display_vel_inplace(h, dg, pulse) ==
  heap_setitem(h, dg, "display_vel", getitem(h.objs[dg], "velocity"),
               np_multiply(h.arrs[getitem(h.objs[dg], "velocity")], pulse))

\* display_grid["display_vel"] = display_grid["velocity"] * pulse
app_attach_display_vel(h, dg, pulse) ==
  heap_setitem(h, dg, "display_vel", "run.display_vel",
               np_multiply(h.arrs[getitem(h.objs[dg], "velocity")], pulse))

\* the plotter with the slice added, clamped to [0, clim_max]
app_plot_slice(slice_plane, err, clim_max) ==
  add_mesh([Plotter(1600, 900, "#000000") EXCEPT !.err = err], slice_plane.n_points,
           [of |-> "slice_plane", scalars |-> "display_vel",
            clim |-> <<0, clim_max>>, style |-> "surface"])

app_velocity_result(c, h, slice_plane, p, pulse) ==
  [status |-> IF p.err = "" THEN "ok" ELSE p.err,
   grid |-> h.objs["grid"], arrays |-> h.arrs,
   display_grid |-> h.objs[c.ref],
   generated |-> ~HasArray(c.h.objs[c.ref], "velocity"), pulse |-> pulse,
   slice_plane |-> slice_plane,
   plotter |-> [p EXCEPT !.camera = "xy"]]

app_slice_and_plot(c, h, clim_max, pulse) ==
  app_velocity_result(c, h, mesh_slice(h.objs[c.ref], SliceOriginZ),
                      app_plot_slice(mesh_slice(h.objs[c.ref], SliceOriginZ), h.err,
                                     clim_max),
                      pulse)

app_synthesize(c, pulse, clim_max, seed) ==
  app_slice_and_plot(c, app_attach_display_vel(app_attach_velocity(c, seed), c.ref, pulse),
                     clim_max, pulse)

app_get_velocity_model(grid, arrays, t, clim_max, seed) ==
  app_synthesize(mesh_copy([objs |-> [grid |-> grid, display_grid |-> NoMesh],
                            arrs |-> [arrays EXCEPT !["run.velocity"] = NoArray,
                                                    !["run.display_vel"] = NoArray],
                            err |-> ""],
                           "grid"),
                 Abs(np_sin(t)) + 500, clim_max, seed)

app_get_mesh_model(grid) ==
  LET p1 == add_mesh(Plotter(1600, 900, "#000000"), grid.n_points,
                     [of |-> "grid", scalars |-> "", clim |-> <<>>,
                      style |-> "wireframe"])
  IN [status |-> IF p1.err = "" THEN "ok" ELSE p1.err,
      plotter |-> [p1 EXCEPT !.camera = "isometric"]]

\* x = np.linspace(0, 100, 100) as numerators over x_den; y and current_y as
\* fractions num/den of 0.05 * (x - 50)**2 + 10
app_x_den == CurveSamples - 1

\* mutant: np.linspace(0, 100, 100, endpoint=False)
app_x_noendpoint == [i \in 1..CurveSamples |-> (i - 1) * (CurveSamples - 1)]

app_x == [i \in 1..CurveSamples |-> np_linspace(CurveStop, i)]

app_y ==
  [i \in 1..CurveSamples |->
     [num |-> (app_x[i] - 50 * app_x_den) * (app_x[i] - 50 * app_x_den)
                + 200 * app_x_den * app_x_den,
      den |-> 20 * app_x_den * app_x_den]]

\* mutant: the highlighted point computed about 49
app_get_mixing_graph_offcentre(current_ratio) ==
  LET current_y == [num |-> (current_ratio - 49) * (current_ratio - 49) + 200,
                    den |-> 20]
  IN [x |-> app_x, x_den |-> app_x_den, y |-> app_y,
      current_ratio |-> current_ratio, current_y |-> current_y]

app_get_mixing_graph(current_ratio) ==
  LET current_y == [num |-> (current_ratio - 50) * (current_ratio - 50) + 200,
                    den |-> 20]
  IN [x |-> app_x, x_den |-> app_x_den, y |-> app_y,
      current_ratio |-> current_ratio, current_y |-> current_y]

\* mutant: power 12.5 + ratio / 10
app_metrics_power_tenth(mixing_time, fluid_ratio, time_step) ==
  [predicted_time |-> mixing_time,
   predicted_time_text |-> FormatFixed(mixing_time, 10),
   avg_velocity |-> 12000 + np_sin(time_step) * 2,
   avg_velocity_text |-> FormatFixed(12000 + np_sin(time_step) * 2, 100),
   homogeneity_text |-> Homogeneity,
   power |-> 1250 + 10 * fluid_ratio,
   power_text |-> FormatFixed(1250 + 10 * fluid_ratio, 10)]

\* the four KPI tiles of the Analytics tab; mixing_time is get_mixing_graph's
\* current_y, here in hundredths
app_metrics(mixing_time, fluid_ratio, time_step) ==
  [predicted_time |-> mixing_time,
   predicted_time_text |-> FormatFixed(mixing_time, 10),
   avg_velocity |-> 12000 + np_sin(time_step) * 2,
   avg_velocity_text |-> FormatFixed(12000 + np_sin(time_step) * 2, 100),
   homogeneity_text |-> Homogeneity,
   power |-> 1250 + fluid_ratio,
   power_text |-> FormatFixed(1250 + fluid_ratio, 10)]

NoView == [status |-> "none"]

\* one run of the script src/app.py with the sidebar set to the given values
app_main(fluid_ratio, time_step, v_max, seed) ==
  \E g \in {app_cache_resource(cache["app"], store["app"], resource)} :
     /\ inputs' = [inputs EXCEPT !["app"] =
                     [fluid_ratio |-> fluid_ratio, time_step |-> time_step,
                      v_max |-> v_max]]
     /\ loads' = [loads EXCEPT !["app"] = IF g.ran THEN @ + 1 ELSE @]
     /\ UNCHANGED resource
     /\ IF g.mesh.kind = "raised"
          THEN \* load_mesh raised: the script stops at its call
               /\ UNCHANGED <<cache, store>>
               /\ shown' = [shown EXCEPT !["app"] =
                    [status |-> "load_error", load |-> "raised", cache_hit |-> FALSE,
                     velocity |-> NoView, graph |-> NoView, metrics |-> NoView,
                     mesh_view |-> NoView, grid_stats |-> NoView]]
          ELSE
            \E vm \in {app_get_velocity_model(g.mesh, g.arrays, time_step, v_max, seed)} :
            \E gr \in {app_get_mixing_graph(fluid_ratio)} :
            \E mm \in {app_get_mesh_model(vm.grid)} :
               /\ cache' = [cache EXCEPT !["app"] = vm.grid]
               /\ store' = [store EXCEPT !["app"] = vm.arrays]
               /\ shown' = [shown EXCEPT !["app"] =
                    IF vm.status # "ok"
                      THEN \* get_velocity_model raised: nothing below it is run
                           [status |-> vm.status,
                            load |-> IF g.mesh.kind = "file" THEN "file" ELSE "fallback",
                            cache_hit |-> ~g.ran,
                            velocity |-> vm,
                            graph |-> NoView, metrics |-> NoView,
                            mesh_view |-> NoView, grid_stats |-> NoView]
                      ELSE [status |-> mm.status,
                            load |-> IF g.mesh.kind = "file" THEN "file" ELSE "fallback",
                            cache_hit |-> ~g.ran,
                            velocity |-> vm,
                            graph |-> gr,
                            metrics |-> app_metrics(5 * gr.current_y.num, fluid_ratio,
                                                    time_step),
                            mesh_view |-> mm,
                            grid_stats |->
                              [status |-> "ok",
                               total_elements |-> vm.grid.n_cells,
                               total_nodes |-> vm.grid.n_points]]]

\* ---------------------------------------------- src/Standardinterface.py
std_load_mesh(res) ==
  IF res.outcome = "ok"
    THEN [mesh |-> res.mesh, arrays |-> res.arrays]
    ELSE [mesh |-> Cylinder, arrays |-> CylinderArrays]

std_cache_resource(entry, arrays, res) ==
  IF entry.kind # "none"
    THEN [mesh |-> entry, arrays |-> arrays, ran |-> FALSE]
    ELSE [mesh |-> std_load_mesh(res).mesh, arrays |-> std_load_mesh(res).arrays,
          ran |-> TRUE]

\* get_velocity_model, first part: the guarded random velocity on the copy c
std_attach_velocity(c, seed) ==
  IF ~HasArray(c.h.objs[c.ref], "velocity")
    THEN heap_setitem(c.h, c.ref, "velocity", "run.velocity",
                      np_random_rand(c.h.objs[c.ref].n_points, Dim, seed))
    ELSE c.h

\* display_grid["display_vel"] = display_grid["velocity"] * pulse
std_attach_display_vel(h, dg, pulse) ==
  heap_setitem(h, dg, "display_vel", "run.display_vel",
               np_multiply(h.arrs[getitem(h.objs[dg], "velocity")], pulse))

\* mutant: the colour range fixed at the slider's default
std_plot_slice_fixed_clim(slice_plane, err, clim_max) ==
  add_mesh([Plotter(800, 600, "white") EXCEPT !.err = err], slice_plane.n_points,
           [of |-> "slice_plane", scalars |-> "display_vel",
            clim |-> <<0, 50>>, style |-> "surface"])

\* the plotter with the slice added, clamped to [0, clim_max]
std_plot_slice(slice_plane, err, clim_max) ==
  add_mesh([Plotter(800, 600, "white") EXCEPT !.err = err], slice_plane.n_points,
           [of |-> "slice_plane", scalars |-> "display_vel",
            clim |-> <<0, clim_max>>, style |-> "surface"])

std_velocity_result(c, h, slice_plane, p, pulse) ==
  [status |-> IF p.err = "" THEN "ok" ELSE p.err,
   grid |-> h.objs["grid"], arrays |-> h.arrs,
   display_grid |-> h.objs[c.ref],
   generated |-> ~HasArray(c.h.objs[c.ref], "velocity"), pulse |-> pulse,
   slice_plane |-> slice_plane,
   plotter |-> [p EXCEPT !.camera = "xy"]]

std_slice_and_plot(c, h, clim_max, pulse) ==
  std_velocity_result(c, h, mesh_slice(h.objs[c.ref], SliceOriginZ),
                      std_plot_slice(mesh_slice(h.objs[c.ref], SliceOriginZ), h.err,
                                     clim_max),
                      pulse)

std_synthesize(c, pulse, clim_max, seed) ==
  std_slice_and_plot(c, std_attach_display_vel(std_attach_velocity(c, seed), c.ref, pulse),
                     clim_max, pulse)

std_get_velocity_model(grid, arrays, t, clim_max, seed) ==
  std_synthesize(mesh_copy([objs |-> [grid |-> grid, display_grid |-> NoMesh],
                            arrs |-> [arrays EXCEPT !["run.velocity"] = NoArray,
                                                    !["run.display_vel"] = NoArray],
                            err |-> ""],
                           "grid"),
                 Abs(np_sin(t)) + 500, clim_max, seed)

\* the mesh is drawn twice: as a translucent surface and as a wireframe
std_get_mesh_model(grid) ==
  LET p1 == add_mesh(Plotter(800, 600, "white"), grid.n_points,
                     [of |-> "grid", scalars |-> "", clim |-> <<>>,
                      style |-> "surface"])
      p2 == add_mesh(p1, grid.n_points,
                     [of |-> "grid", scalars |-> "", clim |-> <<>>,
                      style |-> "wireframe"])
  IN [status |-> IF p2.err = "" THEN "ok" ELSE p2.err,
      plotter |-> [p2 EXCEPT !.camera = "isometric"]]

std_x_den == CurveSamples - 1

std_x == [i \in 1..CurveSamples |-> np_linspace(CurveStop, i)]

std_y ==
  [i \in 1..CurveSamples |->
     [num |-> (std_x[i] - 50 * std_x_den) * (std_x[i] - 50 * std_x_den)
                + 200 * std_x_den * std_x_den,
      den |-> 20 * std_x_den * std_x_den]]

std_get_mixing_graph(current_ratio) ==
  LET current_y == [num |-> (current_ratio - 50) * (current_ratio - 50) + 200,
                    den |-> 20]
  IN [x |-> std_x, x_den |-> std_x_den, y |-> std_y,
      current_ratio |-> current_ratio, current_y |-> current_y]

std_metrics(mixing_time, fluid_ratio, time_step) ==
  [predicted_time |-> mixing_time,
   predicted_time_text |-> FormatFixed(mixing_time, 10),
   avg_velocity |-> 12000 + np_sin(time_step) * 2,
   avg_velocity_text |-> FormatFixed(12000 + np_sin(time_step) * 2, 100),
   homogeneity_text |-> Homogeneity,
   power |-> 1250 + fluid_ratio,
   power_text |-> FormatFixed(1250 + fluid_ratio, 10)]

\* one run of the script src/Standardinterface.py
std_main(fluid_ratio, time_step, v_max, seed) ==
  \E g \in {std_cache_resource(cache["std"], store["std"], resource)} :
     /\ inputs' = [inputs EXCEPT !["std"] =
                     [fluid_ratio |-> fluid_ratio, time_step |-> time_step,
                      v_max |-> v_max]]
     /\ loads' = [loads EXCEPT !["std"] = IF g.ran THEN @ + 1 ELSE @]
     /\ UNCHANGED resource
     /\ IF g.mesh.kind = "raised"
          THEN \* load_mesh raised: the script stops at its call
               /\ UNCHANGED <<cache, store>>
               /\ shown' = [shown EXCEPT !["std"] =
                    [status |-> "load_error", load |-> "raised", cache_hit |-> FALSE,
                     velocity |-> NoView, graph |-> NoView, metrics |-> NoView,
                     mesh_view |-> NoView, grid_stats |-> NoView]]
          ELSE
            \E vm \in {std_get_velocity_model(g.mesh, g.arrays, time_step, v_max, seed)} :
            \E gr \in {std_get_mixing_graph(fluid_ratio)} :
            \E mm \in {std_get_mesh_model(vm.grid)} :
               /\ cache' = [cache EXCEPT !["std"] = vm.grid]
               /\ store' = [store EXCEPT !["std"] = vm.arrays]
               /\ shown' = [shown EXCEPT !["std"] =
                    IF vm.status # "ok"
                      THEN \* get_velocity_model raised: nothing below it is run
                           [status |-> vm.status,
                            load |-> IF g.mesh.kind = "file" THEN "file" ELSE "fallback",
                            cache_hit |-> ~g.ran,
                            velocity |-> vm,
                            graph |-> NoView, metrics |-> NoView,
                            mesh_view |-> NoView, grid_stats |-> NoView]
                      ELSE [status |-> mm.status,
                            load |-> IF g.mesh.kind = "file" THEN "file" ELSE "fallback",
                            cache_hit |-> ~g.ran,
                            velocity |-> vm,
                            graph |-> gr,
                            metrics |-> std_metrics(5 * gr.current_y.num, fluid_ratio,
                                                    time_step),
                            mesh_view |-> mm,
                            grid_stats |->
                              [status |-> "ok",
                               total_elements |-> vm.grid.n_cells,
                               total_nodes |-> vm.grid.n_points,
                           mesh_volume |-> vm.grid.volume]]]

\* --------------------------------------------------------- specifications
NoInput == [fluid_ratio |-> -1, time_step |-> -1, v_max |-> -1]

NotRun ==
  [status |-> "none", load |-> "none", cache_hit |-> FALSE, velocity |-> NoView,
   graph |-> NoView, metrics |-> NoView, mesh_view |-> NoView,
   grid_stats |-> NoView]

Init ==
  /\ resource \in Resources
  /\ cache = [v \in Variants |-> NoMesh]
  /\ store = [v \in Variants |-> EmptyStore]
  /\ loads = [v \in Variants |-> 0]
  /\ inputs = [v \in Variants |-> NoInput]
  /\ shown = [v \in Variants |-> NotRun]

\* a process serves one of the two scripts: every run of a behaviour is a run
\* of the same script
AppRun(r, t, m, seed) ==
  shown["std"].status = "none" /\ app_main(r, t, m, seed)

StdRun(r, t, m, seed) ==
  shown["app"].status = "none" /\ std_main(r, t, m, seed)

Next ==
  \E r \in Ratios, t \in Times, m \in VMaxes, seed \in 0..(MaxSeed - 1) :
    \/ AppRun(r, t, m, seed)
    \/ StdRun(r, t, m, seed)

Spec == Init /\ [][Next]_vars

\* the mixing graph over the whole slider range, on the fallback mesh
InitCurve ==
  /\ resource = [outcome |-> "missing", mesh |-> NoMesh, arrays |-> EmptyStore]
  /\ cache = [v \in Variants |-> NoMesh]
  /\ store = [v \in Variants |-> EmptyStore]
  /\ loads = [v \in Variants |-> 0]
  /\ inputs = [v \in Variants |-> NoInput]
  /\ shown = [v \in Variants |-> NotRun]

NextCurve ==
  \E r \in AllRatios :
    \/ AppRun(r, 50, 50, 0)
    \/ StdRun(r, 50, 50, 0)

SpecCurve == InitCurve /\ [][NextCurve]_vars

\* the two scripts side by side, one process each, on the same mesh resource
NextPair ==
  \E r \in PairRatios, t \in PairTimes, m \in VMaxes, seed \in 0..(MaxSeed - 1) :
    \/ app_main(r, t, m, seed)
    \/ std_main(r, t, m, seed)

SpecPair == Init /\ [][NextPair]_vars

\* ------------------------------------------------------------- properties
Ran(v) == inputs[v] # NoInput

Synthesized(v) == shown[v].velocity.status # "none"

\* the mesh and arrays load_mesh has to hand out for the resource
LoadedMesh == IF resource.outcome = "ok" THEN resource.mesh ELSE Cylinder

LoadedArrays == IF resource.outcome = "ok" THEN resource.arrays ELSE CylinderArrays

BaseArrayIds == {"file.pressure", "file.velocity", "cyl.Normals", "cyl.TCoords"}

MissesPlane(mesh) == mesh.zhi < SliceOriginZ \/ mesh.zlo > SliceOriginZ

\* C1: load_mesh never raises, whatever reading the mesh resource came to, and
\* whenever the read did not succeed the mesh it hands out is the cylinder of
\* radius 0.5 and height 1.2, with n_points > 0 and n_cells > 0.
C1_LoadMeshNeverFails ==
  \A v \in Variants :
    Ran(v) =>
      /\ shown[v].load \in {"file", "fallback"}
      /\ cache[v].kind \in {"file", "cylinder"}
      /\ resource.outcome = "ok" =>
           /\ shown[v].load = "file"
           /\ cache[v].n_points = resource.mesh.n_points
           /\ cache[v].n_cells = resource.mesh.n_cells
      /\ resource.outcome # "ok" =>
           /\ shown[v].load = "fallback"
           /\ cache[v].kind = "cylinder"
           /\ cache[v].radius = 5 /\ cache[v].height = 12
           /\ cache[v].n_points > 0 /\ cache[v].n_cells > 0

C1_Witness ==
  \E v \in Variants :
    /\ Ran(v) /\ resource.outcome = "parse_error"
    /\ cache[v].kind = "cylinder" /\ shown[v].load = "fallback"

\* C2: after any sequence of runs the cached base mesh is as it was loaded: the
\* same named arrays with the same contents; "velocity" (when generated) and
\* "display_vel" are attached to the per-call copy only.
C2_BaseMeshUnchanged ==
  \A v \in Variants :
    Ran(v) =>
      /\ cache[v] = LoadedMesh
      /\ \A id \in BaseArrayIds : store[v][id] = LoadedArrays[id]
      /\ ~HasArray(cache[v], "display_vel")
      /\ HasArray(cache[v], "velocity") <=> HasArray(LoadedMesh, "velocity")
      /\ Synthesized(v) =>
           /\ HasArray(shown[v].velocity.display_grid, "velocity")
           /\ HasArray(shown[v].velocity.display_grid, "display_vel")

C2_Witness ==
  \E v \in Variants :
    /\ shown[v].cache_hit /\ shown[v].status = "ok"
    /\ HasArray(cache[v], "velocity")
    /\ HasArray(shown[v].velocity.display_grid, "display_vel")
    /\ cache[v] = LoadedMesh

C4_LoadedOnce ==
  \A v \in Variants :
    /\ loads[v] <= 1
    /\ Ran(v) =>
         /\ loads[v] = 1
         /\ cache[v] = LoadedMesh
         /\ Synthesized(v) => shown[v].velocity.grid = cache[v]
         /\ shown[v].grid_stats.status = "ok" =>
              /\ shown[v].grid_stats.total_nodes = cache[v].n_points
              /\ shown[v].grid_stats.total_elements = cache[v].n_cells

C4_Witness ==
  \E v \in Variants :
    /\ shown[v].cache_hit /\ loads[v] = 1
    /\ shown[v].status = "ok" /\ shown[v].velocity.grid = LoadedMesh

\* C5 as claimed: when the plane z = 0.5 misses the mesh, the slice is empty and
\* the velocity view is built without an error and shows nothing.
C5_EmptySliceRendersNothing ==
  \A v \in Variants :
    (Ran(v) /\ MissesPlane(cache[v])) =>
      /\ shown[v].velocity.slice_plane.n_points = 0
      /\ shown[v].velocity.status = "ok"
      /\ shown[v].velocity.plotter.actors = <<>>

C5_Reached ==
  \E v \in Variants :
    /\ Ran(v) /\ MissesPlane(cache[v])
    /\ shown[v].velocity.slice_plane.n_points = 0
    /\ shown[v].velocity.status = "ValueError"

GraphShown(v) == "current_y" \in DOMAIN shown[v].graph

\* C6: the predicted mixing time 0.05 * (ratio - 50)^2 + 10 is the same for
\* ratio 50 - d and 50 + d, equals 10 at ratio 50 and exceeds 10 at every other
\* ratio of [0, 100].  (current_y is in twentieths: 10 is 200.)
C6_SymmetricMinimumAt50 ==
  /\ [][\A v \in Variants :
          (/\ "current_y" \in DOMAIN shown[v].graph
           /\ "current_y" \in DOMAIN shown'[v].graph
           /\ shown[v].graph.current_ratio + shown'[v].graph.current_ratio = 100)
            => shown'[v].graph.current_y = shown[v].graph.current_y]_vars
  /\ [](\A v \in Variants :
          GraphShown(v) =>
            /\ shown[v].graph.current_y.den = 20
            /\ shown[v].graph.current_y.num >= 200
            /\ shown[v].graph.current_y.num = 200 <=> shown[v].graph.current_ratio = 50
            /\ shown[v].metrics.predicted_time * 20 = shown[v].graph.current_y.num * 100)

C6_Witness ==
  \E v \in Variants :
    /\ GraphShown(v) /\ shown[v].graph.current_ratio = 0
    /\ shown[v].graph.current_y.num = 2700

\* C7: the background curve has exactly 100 samples with increasing, evenly
\* spaced ratios from 0 to 100, each sample's time is 0.05 * (ratio - 50)^2 + 10
\* of its own ratio, and the curve and the highlighted point agree at any ratio
\* they share.
C7_CurveSamples ==
  \A v \in Variants :
    GraphShown(v) =>
      LET g == shown[v].graph
      IN /\ Len(g.x) = 100 /\ Len(g.y) = 100
         /\ g.x[1] = 0
         /\ g.x[100] = 100 * g.x_den
         /\ g.x[2] > g.x[1]
         /\ \A i \in 1..99 : g.x[i + 1] - g.x[i] = g.x[2] - g.x[1]
         /\ \A i \in 1..100 :
              /\ g.y[i].den = 20 * g.x_den * g.x_den
              /\ g.y[i].num = (g.x[i] - 50 * g.x_den) * (g.x[i] - 50 * g.x_den)
                                + 10 * g.y[i].den
              /\ g.x[i] = g.current_ratio * g.x_den =>
                   g.y[i].num * g.current_y.den = g.current_y.num * g.y[i].den

C7_Witness ==
  \E v \in Variants :
    /\ GraphShown(v) /\ shown[v].graph.current_ratio = 100
    /\ shown[v].graph.x[100] = 100 * shown[v].graph.x_den
    /\ shown[v].graph.y[100].num * 20
         = shown[v].graph.current_y.num * shown[v].graph.y[100].den

ArrayOf(v, entry) == store[v][entry.ref]

\* C8 as claimed: after the synthesis step every array attached to the derived
\* mesh, "velocity" and "display_vel" among them, has n_points entries.
C8_AllArraysHavePointCount ==
  \A v \in Variants :
    Synthesized(v) =>
      LET dg == shown[v].velocity.display_grid
      IN /\ HasArray(dg, "velocity") /\ HasArray(dg, "display_vel")
         /\ \A i \in 1..Len(dg.point_data) : Len(ArrayOf(v, dg.point_data[i])) = dg.n_points
         /\ \A i \in 1..Len(dg.cell_data) : Len(ArrayOf(v, dg.cell_data[i])) = dg.n_points

\* C8 amended: after the synthesis step every point array of the derived mesh
\* has n_points entries and every cell array n_cells entries; "display_vel" has
\* the length and shape of "velocity", which is n_points x 3 when the velocity
\* was generated or is point data, and n_cells x 3 when it is cell data.
C8_ArraysMatchTheirAssociation ==
  \A v \in Variants :
    Synthesized(v) =>
      LET dg == shown[v].velocity.display_grid
      IN /\ HasArray(dg, "velocity") /\ HasArray(dg, "display_vel")
         /\ \A i \in 1..Len(dg.point_data) : Len(ArrayOf(v, dg.point_data[i])) = dg.n_points
         /\ \A i \in 1..Len(dg.cell_data) : Len(ArrayOf(v, dg.cell_data[i])) = dg.n_cells
         /\ LET vel == store[v][getitem(dg, "velocity")]
                disp == store[v][getitem(dg, "display_vel")]
            IN /\ Len(disp) = Len(vel)
               /\ \A i \in 1..Len(vel) : Len(disp[i]) = 3 /\ Len(vel[i]) = 3
               /\ (\/ shown[v].velocity.generated
                   \/ \E i \in 1..Len(dg.point_data) : dg.point_data[i].name = "velocity")
                    => Len(vel) = dg.n_points
               /\ (\E i \in 1..Len(dg.cell_data) : dg.cell_data[i].name = "velocity")
                    => Len(vel) = dg.n_cells

C8_Witness ==
  \E v \in Variants :
    /\ Synthesized(v)
    /\ shown[v].velocity.display_grid.n_cells # shown[v].velocity.display_grid.n_points
    /\ \E i \in 1..Len(shown[v].velocity.display_grid.cell_data) :
         shown[v].velocity.display_grid.cell_data[i].name = "display_vel"

\* C9: the metrics depend on (ratio, t) only: predicted time
\* 0.05 * (ratio - 50)^2 + 10, average velocity 1.2 + 0.2 * sin(t), homogeneity
\* 98.5, power 12.5 + ratio / 100; ratio 49 and t 0.5 give 10.05 and 12.99.
C9_MetricsFromRatioAndTime ==
  \A v \in Variants :
    (Ran(v) /\ "predicted_time" \in DOMAIN shown[v].metrics) =>
      LET r == inputs[v].fluid_ratio
          t == inputs[v].time_step
          m == shown[v].metrics
      IN /\ m.predicted_time = 5 * (r - 50) * (r - 50) + 1000
         /\ m.avg_velocity = 12000 + 2 * np_sin(t)
         /\ m.homogeneity_text = 985
         /\ m.power = 1250 + r
         /\ (r = 49 /\ t = 50) =>
              /\ m.predicted_time = 1005 /\ m.power = 1299 /\ m.avg_velocity = 12958

C9_Witness ==
  \E v \in Variants :
    /\ Ran(v) /\ shown[v].load = "fallback" /\ shown[v].status = "ok"
    /\ inputs[v] = [fluid_ratio |-> 49, time_step |-> 50, v_max |-> 50]
    /\ shown[v].metrics.predicted_time = 1005
    /\ shown[v].metrics.power = 1299

\* what a run shows, leaving out window size, colours, drawing style and layout
Behaviour(v) ==
  [status |-> shown[v].status,
   load |-> shown[v].load,
   fields |-> IF Synthesized(v) THEN array_names(shown[v].velocity.display_grid) ELSE <<>>,
   slice |-> IF Synthesized(v) THEN shown[v].velocity.slice_plane ELSE NoView,
   pulse |-> IF Synthesized(v) THEN shown[v].velocity.pulse ELSE 0,
   drawn |-> IF Synthesized(v)
               THEN [i \in 1..Len(shown[v].velocity.plotter.actors) |->
                       [scalars |-> shown[v].velocity.plotter.actors[i].scalars,
                        clim |-> shown[v].velocity.plotter.actors[i].clim]]
               ELSE <<>>,
   graph |-> shown[v].graph,
   metrics |-> shown[v].metrics]

SameRequest ==
  /\ Ran("app") /\ Ran("std") /\ inputs["app"] = inputs["std"]

\* C10 as claimed: on the same mesh resource and the same inputs the two
\* scripts differ in nothing but window size, colours and layout.
C10_NoBehaviouralDifference ==
  SameRequest =>
    /\ Behaviour("app") = Behaviour("std")
    /\ shown["app"].grid_stats = shown["std"].grid_stats

\* C10 amended: on the same mesh resource and the same inputs the two scripts
\* take the same load / fallback decision, attach the same fields in the same
\* order, cut with the same plane, clamp to the same [0, v_max], and show the
\* same curve, predicted time, KPI values, element and node counts; besides
\* window size, colours and layout, src/Standardinterface.py also computes and
\* shows the mesh volume, which src/app.py does not.
C10_SameExceptMeshVolume ==
  SameRequest =>
    /\ Behaviour("app") = Behaviour("std")
    /\ shown["app"].grid_stats.status = shown["std"].grid_stats.status
    /\ shown["app"].grid_stats.status = "ok" =>
         /\ shown["app"].grid_stats.total_elements = shown["std"].grid_stats.total_elements
         /\ shown["app"].grid_stats.total_nodes = shown["std"].grid_stats.total_nodes
         /\ "mesh_volume" \in DOMAIN shown["std"].grid_stats
         /\ "mesh_volume" \notin DOMAIN shown["app"].grid_stats

C10_Witness ==
  /\ SameRequest
  /\ shown["app"].status = "ok" /\ shown["std"].status = "ok"
  /\ inputs["app"].v_max = 200
  /\ shown["app"].metrics = shown["std"].metrics
  /\ shown["std"].grid_stats.mesh_volume = 94

====
